---- MODULE Spec2Model ----
(***************************************************************************)
(* Model of src/rng/bigcrush_wrapper.c: the stdin stream reader            *)
(* (buffer, refill_buffer, read_uint32), the TestU01 generator adapter     *)
(* (stdin_bits, stdin_u01, write_state, create_stdin_gen,                  *)
(* delete_stdin_gen) and main's argument loop and battery dispatch.        *)
(*                                                                         *)
(* A uint32_t is kept as two 16-bit limbs <<lo, hi>> (value lo + 65536*hi),*)
(* since the model checker's integers are narrower than 2^32.  A wider     *)
(* natural is a little-endian sequence of 16-bit limbs.  The double that   *)
(* stdin_u01 returns is the exact rational num/den: a uint32_t converts to *)
(* double exactly (it has fewer than 53 bits) and so does its quotient by  *)
(* a power of two.                                                         *)
(*                                                                         *)
(* The battery (bbattery_SmallCrush / Crush / BigCrush) is external: it    *)
(* calls GetBits, GetU01 and Write in any order, any number of times, and  *)
(* then returns.                                                           *)
(***************************************************************************)
EXTENDS Integers, Sequences, FiniteSets, TLC

\* ---------------------------------------------------------------- bounds
MaxLen == 9          \* longest patterned stdin, in bytes
MaxAll == 4          \* every stdin over ByteVals up to this length is tried
MaxCap == 3          \* small buffer capacities tried beside the real one
MaxShortReads == 1   \* short counts fread delivers in one run
MaxArgs == 2         \* longest command line (arguments after argv[0])
MaxWrites == 1       \* Write callbacks the battery makes
MaxLiveLen == 6      \* longest stdin of the runs checked for termination

\* ------------------------------------------------------- program constants
RefBufferSize == 4096          \* #define BUFFER_SIZE 4096
LimbBase == 65536              \* 2^16: one limb of a uint32_t
LimbBits == 16

ByteVals == {0, 255}
ByteRange == 0..255

Tokens == {"-s", "--small", "-m", "--medium", "-b", "--big",
           "-n", "--name", "-h", "--help", "x"}

Caps == (1..MaxCap) \cup {RefBufferSize}

SeqsUpTo(S, n) == UNION {[1..k -> S] : k \in 0..n}

Min(a, b) == IF a < b THEN a ELSE b
Max(a, b) == IF a > b THEN a ELSE b

VARIABLES
    argv,         \* argv[1..argc-1]
    argi,         \* main's loop index i
    name,         \* const char *name
    test_type,    \* int test_type
    pc,           \* where the process is
    exit_status,  \* <<>> while the process runs, then <<its exit status>>
    usage,        \* the usage text has been printed
    gen,          \* the unif01_Gen *gen: NoGen, the allocated record, or FreedGen
    created,      \* create_stdin_gen calls that returned
    deleted,      \* delete_stdin_gen calls
    invoked,      \* battery entry points called, in order
    stdin,        \* every byte the stream will deliver
    stdin_off,    \* bytes fread has taken from stdin
    capacity,     \* BUFFER_SIZE
    buffer,       \* the written prefix of buffer[]; the rest is still 0
    buffer_pos,
    buffer_len,
    refills,      \* refill_buffer calls
    refill_ret,   \* what the last refill_buffer call returned (FALSE before any)
    shorts,       \* fread calls that returned a short count before end-of-file
    lost,         \* unread bytes that refills have overwritten
    caller,       \* the accessor that called read_uint32
    i,            \* read_uint32's loop index
    value,        \* read_uint32's accumulator
    ret,          \* what the last accessor call returned to the battery
    calls,        \* accessor calls that returned, per accessor
    writes,       \* blank lines write_state has printed
    decoded       \* bytes read_uint32 has consumed from the buffer, in order

argVars == <<argv, argi, name, test_type, usage>>
genVars == <<gen, created, deleted, invoked>>
readerVars == <<stdin, stdin_off, capacity, buffer, buffer_pos, buffer_len,
                refills, refill_ret, shorts, lost, decoded>>
callVars == <<caller, i, value, ret, calls, writes>>
vars == <<argv, argi, name, test_type, pc, exit_status, usage,
          gen, created, deleted, invoked,
          stdin, stdin_off, capacity, buffer, buffer_pos, buffer_len,
          refills, refill_ret, shorts, lost, caller, i, value, ret, calls, writes,
          decoded>>

\* ------------------------------------------------------------ uint32_t
Zero32 == <<0, 0>>

RECURSIVE BitOr(_, _, _)
BitOr(a, b, n) ==
    IF n = 0 THEN 0
    ELSE (IF a % 2 = 1 \/ b % 2 = 1 THEN 1 ELSE 0)
         + 2 * BitOr(a \div 2, b \div 2, n - 1)

Or32(u, v) == <<BitOr(u[1], v[1], LimbBits), BitOr(u[2], v[2], LimbBits)>>

RECURSIVE Pow2(_)
Pow2(k) == IF k = 0 THEN 1 ELSE 2 * Pow2(k - 1)

\* u << k on a uint32_t, for k below 32: the bits shifted past bit 31 are lost.
Shl32(u, k) ==
    IF k < LimbBits
    THEN <<(u[1] * Pow2(k)) % LimbBase,
           (u[2] * Pow2(k) + ((u[1] * Pow2(k)) \div LimbBase)) % LimbBase>>
    ELSE <<0, (u[1] * Pow2(k - LimbBits)) % LimbBase>>

ToU32(b) == <<b % LimbBase, 0>>

\* Mutation: the bytes assembled most-significant first.
AccumulateShiftBigEndian(k) == (3 - k) * 8

\* value |= ((uint32_t)b) << (i * 8)
AccumulateShift(k) == k * 8
Accumulate(v, b, k) == Or32(v, Shl32(ToU32(b), AccumulateShift(k)))

\* A natural as little-endian 16-bit limbs: strip the high zero limbs.
RECURSIVE Norm(_)
Norm(a) == IF Len(a) > 0 /\ a[Len(a)] = 0 THEN Norm(SubSeq(a, 1, Len(a) - 1)) ELSE a

RECURSIVE LessNorm(_, _)
LessNorm(a, b) ==
    IF Len(a) # Len(b) THEN Len(a) < Len(b)
    ELSE IF Len(a) = 0 THEN FALSE
    ELSE IF a[Len(a)] # b[Len(b)] THEN a[Len(a)] < b[Len(b)]
    ELSE LessNorm(SubSeq(a, 1, Len(a) - 1), SubSeq(b, 1, Len(b) - 1))

Less(a, b) == LessNorm(Norm(a), Norm(b))

\* --------------------------------------------------------- stream reader
\* Mutation: the test off by one, so the cell at buffer_len is read.
NeedRefillLate(pos, len) == pos > len

\* Mutation: an eager refill, while one unread byte is still in the buffer.
NeedRefillEager(pos, len) == pos + 1 >= len

\* if (buffer_pos >= buffer_len)
NeedRefill(pos, len) == pos >= len

\* What fread(buffer, 1, BUFFER_SIZE, stdin) can return: the full count, or a
\* short count of at least one byte while the stream still has bytes, and 0
\* at end-of-file.
FreadCounts ==
    LET rem == Len(stdin) - stdin_off
        full == Min(capacity, rem)
    IN  IF rem = 0 THEN {0}
        ELSE {full} \cup (IF shorts < MaxShortReads THEN 1..(full - 1) ELSE {})

IsShort(n) == n < Min(capacity, Len(stdin) - stdin_off)

\* Mutation: fread advances the stream but stores nothing in the array.
FreadIntoStale(buf, n) ==
    [k \in 1..Max(Len(buf), n) |-> IF k <= Len(buf) THEN buf[k] ELSE 0]

\* fread stores n bytes at buffer[0..n-1] and leaves the rest of the array.
FreadInto(buf, n) ==
    [k \in 1..Max(Len(buf), n) |-> IF k <= n THEN stdin[stdin_off + k] ELSE buf[k]]

\* Mutation: end-of-file is not reported.
refill_buffer_no_eof(n, pos) == [len |-> n, pos |-> 0, ret |-> TRUE]

\* Mutation: the cursor is not reset.
refill_buffer_keep_pos(n, pos) == [len |-> n, pos |-> pos, ret |-> n > 0]

\* Mutation: buffer_len is set one past the count fread returned.
refill_buffer_overcount(n, pos) == [len |-> n + 1, pos |-> 0, ret |-> n > 0]

\* refill_buffer, given the count n that fread returned
refill_buffer(n, pos) == [len |-> n, pos |-> 0, ret |-> n > 0]

\* buffer[p]: a cell fread wrote, a cell still 0 from static initialisation,
\* or, past the end of the array, whatever byte lies there.
BufferAt(p) ==
    IF p < Len(buffer) THEN {buffer[p + 1]}
    ELSE IF p < capacity THEN {0}
    ELSE ByteRange

\* ------------------------------------------------------------- accessors
TwoTo32 == <<0, 0, 1>>          \* 4294967296.0

stdin_bits(v) == [kind |-> "bits", val |-> v]

\* Mutation: the divisor 4294967295.0.
stdin_u01_max(v) == [kind |-> "u01", num |-> v, den |-> <<LimbBase - 1, LimbBase - 1>>]

stdin_u01(v) == [kind |-> "u01", num |-> v, den |-> TwoTo32]

ExitStatusExhausted == 1        \* exit(1) in read_uint32
ExitStatusMalloc == 1           \* exit(1) in create_stdin_gen
ExitStatusReturn == 0           \* return 0 in main

NoGen == [null |-> TRUE]
FreedGen == [freed |-> TRUE]

\* --------------------------------------------------------------- Init
ScenarioInputs == {<<>>, <<1, 0, 0, 0>>, <<255, 255, 255, 255>>,
                   <<1, 0, 0, 0, 170, 187>>}

\* n bytes base, base+step, base+2*step, ... (mod 256): with an odd step no
\* two bytes of a short input are equal, so a byte skipped, repeated or
\* misplaced shows in the decoded value.
Pattern(base, step, n) == [k \in 1..n |-> (base + step * (k - 1)) % 256]

PatternShapes == {<<1, 1>>, <<250, 3>>, <<255, 0>>}

Inputs ==
    {Pattern(p[1], p[2], n) : p \in PatternShapes, n \in 0..MaxLen}
        \cup SeqsUpTo(ByteVals, MaxAll) \cup ScenarioInputs

InitCommon ==
    /\ argi = 1
    /\ name = "Rust RNG"
    /\ test_type = 2
    /\ pc = "args"
    /\ exit_status = <<>>
    /\ usage = FALSE
    /\ gen = NoGen
    /\ created = 0
    /\ deleted = 0
    /\ invoked = <<>>
    /\ stdin_off = 0
    /\ buffer = <<>>
    /\ buffer_pos = capacity
    /\ buffer_len = 0
    /\ refills = 0
    /\ shorts = 0
    /\ refill_ret = FALSE
    /\ lost = 0
    /\ caller = "none"
    /\ i = 0
    /\ value = Zero32
    /\ ret = [kind |-> "none"]
    /\ calls = [bits |-> 0, u01 |-> 0]
    /\ writes = 0
    /\ decoded = <<>>

\* Every command line against one input, and every input against the empty
\* command line.
Init ==
    /\ \/ /\ argv \in SeqsUpTo(Tokens, MaxArgs)
          /\ stdin = <<1, 0, 0, 0>>
          /\ capacity = RefBufferSize
       \/ /\ argv = <<>>
          /\ stdin \in Inputs
          /\ capacity \in Caps
    /\ InitCommon

\* ---------------------------------------------------- main: argument loop
InArgs == pc = "args" /\ argi <= Len(argv)

IsSmall(a) == a = "-s" \/ a = "--small"
IsMedium(a) == a = "-m" \/ a = "--medium"
IsBig(a) == a = "-b" \/ a = "--big"
IsName(a) == a = "-n" \/ a = "--name"
IsHelp(a) == a = "-h" \/ a = "--help"

\* Mutation: a selection made earlier on the command line is kept.
ArgSelectFirstWins(t) ==
    /\ test_type' = IF test_type # 2 THEN test_type ELSE t
    /\ argi' = argi + 1
    /\ UNCHANGED <<argv, name, usage, pc, exit_status>>
    /\ UNCHANGED <<genVars, readerVars, callVars>>

\* test_type = t; and the loop's i++
ArgSelect(t) ==
    /\ test_type' = t
    /\ argi' = argi + 1
    /\ UNCHANGED <<argv, name, usage, pc, exit_status>>
    /\ UNCHANGED <<genVars, readerVars, callVars>>

ArgSmall == InArgs /\ IsSmall(argv[argi]) /\ ArgSelect(0)

ArgMedium == InArgs /\ IsMedium(argv[argi]) /\ ArgSelect(1)

ArgBig == InArgs /\ IsBig(argv[argi]) /\ ArgSelect(2)

\* Mutation: -n/--name copies the next argument but does not step over it.
ArgNameNoSkip ==
    /\ InArgs
    /\ IsName(argv[argi])
    /\ IF argi + 1 < Len(argv) + 1
       THEN name' = argv[argi + 1] /\ argi' = argi + 1
       ELSE name' = name /\ argi' = argi + 1
    /\ UNCHANGED <<argv, test_type, usage, pc, exit_status>>
    /\ UNCHANGED <<genVars, readerVars, callVars>>

\* -n / --name: if (i + 1 < argc) name = argv[++i];
ArgName ==
    /\ InArgs
    /\ IsName(argv[argi])
    /\ IF argi + 1 < Len(argv) + 1
       THEN name' = argv[argi + 1] /\ argi' = argi + 2
       ELSE name' = name /\ argi' = argi + 1
    /\ UNCHANGED <<argv, test_type, usage, pc, exit_status>>
    /\ UNCHANGED <<genVars, readerVars, callVars>>

\* Mutation: the usage text is printed but main does not return.
ArgHelpNoReturn ==
    /\ InArgs
    /\ IsHelp(argv[argi])
    /\ usage' = TRUE
    /\ argi' = argi + 1
    /\ UNCHANGED <<argv, name, test_type, pc, exit_status>>
    /\ UNCHANGED <<genVars, readerVars, callVars>>

ArgHelp ==
    /\ InArgs
    /\ IsHelp(argv[argi])
    /\ usage' = TRUE
    /\ pc' = "help_exit"
    /\ exit_status' = <<ExitStatusReturn>>
    /\ UNCHANGED <<argv, argi, name, test_type>>
    /\ UNCHANGED <<genVars, readerVars, callVars>>

ArgOther ==
    /\ InArgs
    /\ LET a == argv[argi]
       IN ~(IsSmall(a) \/ IsMedium(a) \/ IsBig(a) \/ IsName(a) \/ IsHelp(a))
    /\ argi' = argi + 1
    /\ UNCHANGED <<argv, name, test_type, usage, pc, exit_status>>
    /\ UNCHANGED <<genVars, readerVars, callVars>>

ArgsDone ==
    /\ pc = "args"
    /\ ~(argi <= Len(argv))
    /\ pc' = "create"
    /\ UNCHANGED <<argVars, exit_status, genVars, readerVars, callVars>>

\* ------------------------------------------------ main: adapter and battery
CreateGen ==
    /\ pc = "create"
    /\ gen' = [name |-> name, GetU01 |-> "stdin_u01", GetBits |-> "stdin_bits",
               Write |-> "write_state"]
    /\ created' = created + 1
    /\ pc' = "dispatch"
    /\ UNCHANGED <<argVars, exit_status, deleted, invoked, readerVars, callVars>>

\* malloc returned NULL
CreateGenFail ==
    /\ pc = "create"
    /\ pc' = "malloc_failed"
    /\ exit_status' = <<ExitStatusMalloc>>
    /\ UNCHANGED <<argVars, genVars, readerVars, callVars>>

Battery(t) ==
    CASE t = 0 -> "SmallCrush"
      [] t = 1 -> "Crush"
      [] t = 2 -> "BigCrush"
      [] OTHER -> "none"

\* Mutation: the switch without its break statements.
DispatchFallthrough ==
    /\ pc = "dispatch"
    /\ invoked' = invoked \o [k \in 1..(3 - test_type) |-> Battery(test_type + k - 1)]
    /\ pc' = "battery"
    /\ UNCHANGED <<argVars, exit_status, gen, created, deleted, readerVars, callVars>>

Dispatch ==
    /\ pc = "dispatch"
    /\ IF Battery(test_type) # "none"
       THEN invoked' = Append(invoked, Battery(test_type)) /\ pc' = "battery"
       ELSE invoked' = invoked /\ pc' = "delete"
    /\ UNCHANGED <<argVars, exit_status, gen, created, deleted, readerVars, callVars>>

CallAccessor(k) ==
    /\ pc = "battery"
    /\ caller' = k
    /\ i' = 0
    /\ value' = Zero32
    /\ pc' = "read"
    /\ UNCHANGED <<argVars, exit_status, genVars, readerVars, ret, calls, writes>>

CallBits == CallAccessor("bits")

CallU01 == CallAccessor("u01")

\* Mutation: write_state discards what is buffered.
CallWriteDrainsBuffer ==
    /\ pc = "battery"
    /\ writes < MaxWrites
    /\ writes' = writes + 1
    /\ buffer_pos' = buffer_len
    /\ UNCHANGED <<argVars, pc, exit_status, genVars, stdin, stdin_off, capacity,
                   buffer, buffer_len, refills, refill_ret, shorts, lost, decoded,
                   caller, i, value, ret, calls>>

CallWrite ==
    /\ pc = "battery"
    /\ writes < MaxWrites
    /\ writes' = writes + 1
    /\ UNCHANGED <<argVars, pc, exit_status, genVars, readerVars,
                   caller, i, value, ret, calls>>

BatteryReturn ==
    /\ pc = "battery"
    /\ pc' = "delete"
    /\ UNCHANGED <<argVars, exit_status, genVars, readerVars, callVars>>

\* Mutation: main returns without calling delete_stdin_gen.
DeleteGenLeak ==
    /\ pc = "delete"
    /\ pc' = "return"
    /\ UNCHANGED <<argVars, exit_status, genVars, readerVars, callVars>>

DeleteGen ==
    /\ pc = "delete"
    /\ IF gen # NoGen
       THEN gen' = FreedGen /\ deleted' = deleted + 1
       ELSE UNCHANGED <<gen, deleted>>
    /\ pc' = "return"
    /\ UNCHANGED <<argVars, exit_status, created, invoked, readerVars, callVars>>

MainReturn ==
    /\ pc = "return"
    /\ pc' = "returned"
    /\ exit_status' = <<ExitStatusReturn>>
    /\ UNCHANGED <<argVars, genVars, readerVars, callVars>>

\* ------------------------------------------------------------ read_uint32
AtLoopTop == pc = "read" /\ i < 4

\* The call refill_buffer() inside read_uint32's loop; ok is what it returns.
RefillCall(ok) ==
    /\ AtLoopTop
    /\ NeedRefill(buffer_pos, buffer_len)
    /\ \E n \in FreadCounts :
         LET r == refill_buffer(n, buffer_pos)
         IN  /\ r.ret = ok
             /\ buffer' = FreadInto(buffer, n)
             /\ stdin_off' = stdin_off + n
             /\ buffer_len' = r.len
             /\ buffer_pos' = r.pos
             /\ refill_ret' = r.ret
             /\ shorts' = IF IsShort(n) THEN shorts + 1 ELSE shorts
    /\ refills' = refills + 1
    /\ lost' = lost + (IF buffer_pos < buffer_len THEN buffer_len - buffer_pos ELSE 0)
    /\ UNCHANGED <<argVars, genVars, stdin, capacity, decoded, callVars>>

RefillOk ==
    /\ RefillCall(TRUE)
    /\ pc' = "use"
    /\ UNCHANGED exit_status

\* Mutation: at end-of-file read_uint32 waits for more input and never exits.
ExhaustedWaits ==
    /\ AtLoopTop
    /\ NeedRefill(buffer_pos, buffer_len)
    /\ stdin_off = Len(stdin)
    /\ UNCHANGED vars

\* Mutation: exhaustion ends the process with status 0.
ExhaustedExitZero ==
    /\ RefillCall(FALSE)
    /\ pc' = "stdin_exhausted"
    /\ exit_status' = <<ExitStatusReturn>>

\* refill_buffer returned 0: "Error: stdin exhausted", exit(1)
Exhausted ==
    /\ RefillCall(FALSE)
    /\ pc' = "stdin_exhausted"
    /\ exit_status' = <<ExitStatusExhausted>>

\* Mutation: the cursor advances by two.
PostIncrementSkip(pos) == pos + 2

PostIncrement(pos) == pos + 1

\* value |= ((uint32_t)buffer[buffer_pos++]) << (i * 8); i++
ConsumeByte ==
    /\ \/ pc = "use"
       \/ AtLoopTop /\ ~NeedRefill(buffer_pos, buffer_len)
    /\ \E b \in BufferAt(buffer_pos) :
         /\ value' = Accumulate(value, b, i)
         /\ decoded' = Append(decoded, b)
    /\ buffer_pos' = PostIncrement(buffer_pos)
    /\ i' = i + 1
    /\ pc' = "read"
    /\ UNCHANGED <<argVars, exit_status, genVars, stdin, stdin_off, capacity,
                   buffer, buffer_len, refills, refill_ret, shorts, lost,
                   caller, ret, calls, writes>>

\* return value; the accessor converts it and returns to the battery
ReadReturn ==
    /\ pc = "read"
    /\ ~(i < 4)
    /\ ret' = IF caller = "bits" THEN stdin_bits(value) ELSE stdin_u01(value)
    /\ calls' = [calls EXCEPT ![caller] = @ + 1]
    /\ pc' = "battery"
    /\ UNCHANGED <<argVars, exit_status, genVars, readerVars, caller, i, value, writes>>

Next ==
    \/ ArgSmall \/ ArgMedium \/ ArgBig \/ ArgName \/ ArgHelp \/ ArgOther
    \/ ArgsDone
    \/ CreateGen \/ CreateGenFail \/ Dispatch
    \/ CallBits \/ CallU01 \/ CallWrite \/ BatteryReturn
    \/ RefillOk \/ Exhausted \/ ConsumeByte \/ ReadReturn
    \/ DeleteGen \/ MainReturn

Spec == Init /\ [][Next]_vars

\* The process is one thread that runs until it exits, and the battery, which
\* runs on that thread, goes on to its next callback or returns: a step that
\* can be taken is taken.
\* Its runs start from fewer command lines and inputs than Spec's.
LiveInputs == {Pattern(1, 1, n) : n \in 0..MaxLiveLen}

InitLive ==
    /\ \/ /\ argv \in SeqsUpTo(Tokens, 1)
          /\ stdin = <<1, 0, 0, 0>>
          /\ capacity = RefBufferSize
       \/ /\ argv = <<>>
          /\ stdin \in LiveInputs
          /\ capacity \in Caps
    /\ InitCommon

FairSpec == InitLive /\ [][Next]_vars /\ WF_vars(Next)

\* ===================================================================
\* Properties
\* ===================================================================
ndraws == calls.bits + calls.u01

\* The 32-bit draw an accessor's return value carries.
RawOf(r) == IF r.kind = "bits" THEN r.val ELSE r.num

\* The j-th 4-byte group of s read little-endian,
\* s[4j-3] + 256*s[4j-2] + 65536*s[4j-1] + 16777216*s[4j], as two limbs.
LEGroup(s, j) ==
    <<s[4 * j - 3] + 256 * s[4 * j - 2], s[4 * j - 1] + 256 * s[4 * j]>>

Groups(s) == Len(s) \div 4

InRead == pc = "read" \/ pc = "use"

\* C1: when the input length is a multiple of 4, the k-th read_uint32 call
\* returns the k-th 4-byte group of the input read little-endian, for every
\* k up to length/4, and none of those calls ends in exhaustion.
C1_LittleEndianGroupsInOrder ==
    Len(stdin) % 4 = 0 =>
        /\ (pc = "read" /\ i = 4) =>
               /\ ndraws + 1 <= Groups(stdin)
               /\ value = LEGroup(stdin, ndraws + 1)
        /\ ndraws >= 1 => RawOf(ret) = LEGroup(stdin, ndraws)
        /\ pc = "stdin_exhausted" => ndraws = Groups(stdin)

C1_Witness ==
    /\ Len(stdin) = 8
    /\ stdin[1] # stdin[4]
    /\ pc = "battery"
    /\ ndraws = 2

\* C2: when the input length is not a multiple of 4, or the input is empty,
\* exactly floor(length/4) draws are returned; the next call ends in the
\* exhausted exit and returns nothing, so the leftover bytes never reach a
\* caller as a value.
C2_NoPartialInteger ==
    (Len(stdin) % 4 # 0 \/ Len(stdin) = 0) =>
        /\ ndraws <= Groups(stdin)
        /\ (pc = "read" /\ i = 4) => ndraws < Groups(stdin)
        /\ (InRead /\ ndraws = Groups(stdin)) => i <= Len(stdin) % 4
        /\ pc = "stdin_exhausted" =>
               /\ ndraws = Groups(stdin)
               /\ i = Len(stdin) % 4
               /\ exit_status # <<>> /\ exit_status # <<0>>
               /\ ndraws >= 1 => RawOf(ret) = LEGroup(stdin, ndraws)
               /\ ndraws = 0 => ret.kind = "none"

C2_Witness ==
    /\ Len(stdin) = 6
    /\ pc = "stdin_exhausted"
    /\ ndraws = 1
    /\ Len(decoded) = 6

\* C3: the two accessors share one sequence: between calls, after k calls
\* of either accessor in any order have returned, the reader has consumed
\* exactly the first 4k input bytes, each once and in order, and the last
\* call returned the k-th group.
C3_SharedSequence ==
    /\ pc = "battery" =>
           /\ Len(decoded) = 4 * ndraws
           /\ 4 * ndraws <= Len(stdin)
           /\ decoded = SubSeq(stdin, 1, 4 * ndraws)
           /\ ndraws >= 1 => RawOf(ret) = LEGroup(stdin, ndraws)
    /\ InRead =>
           /\ Len(decoded) = 4 * ndraws + i
           /\ Len(decoded) <= Len(stdin)
           /\ decoded = SubSeq(stdin, 1, Len(decoded))

C3_Witness ==
    /\ pc = "battery"
    /\ calls.bits = 1
    /\ calls.u01 = 1
    /\ ret.kind = "bits"

\* The reference reader: the k-th draw of input s decoded directly in 4-byte
\* groups, or exhaustion when fewer than 4k bytes exist.
RefDraw(s, k) ==
    IF 4 * k <= Len(s) THEN [ok |-> TRUE, val |-> LEGroup(s, k)]
    ELSE [ok |-> FALSE]

\* C4: whatever the capacity and however the refills chunk the input, each
\* draw returns what the reference reader returns for it, and the run is
\* exhausted at the draw where the reference reader is.
C4_CapacityNotObservable ==
    /\ (pc = "read" /\ i = 4) =>
           RefDraw(stdin, ndraws + 1) = [ok |-> TRUE, val |-> value]
    /\ pc = "stdin_exhausted" => ~RefDraw(stdin, ndraws + 1).ok
    /\ \A k \in 1..ndraws : RefDraw(stdin, k).ok

C4_Witness ==
    /\ capacity = 3
    /\ shorts = 1
    /\ refills >= 4
    /\ pc = "battery"
    /\ ndraws = 2

\* C5: stdin_u01 returns draw / 2^32 for the same draw stdin_bits would
\* return: the result is at least 0 and below 1, is 0 exactly for the draw
\* 0, and is below 1 for the draw 0xFFFFFFFF.
C5_UnitInterval ==
    ret.kind = "u01" =>
        /\ ret.num = LEGroup(stdin, ndraws)
        /\ ret.num = stdin_bits(ret.num).val
        /\ ret.den = TwoTo32
        /\ \A k \in 1..Len(ret.num) : ret.num[k] \in 0..(LimbBase - 1)
        /\ Less(ret.num, ret.den)
        /\ (Norm(ret.num) = <<>>) <=> (LEGroup(stdin, ndraws) = Zero32)

C5_Witness ==
    /\ ret.kind = "u01"
    /\ ret.num = <<LimbBase - 1, LimbBase - 1>>
    /\ ndraws = 2

\* The positions of argv that main's loop reads as flags: every position
\* except the one that follows a -n/--name read as a flag.
RECURSIVE FlagPositions(_, _)
FlagPositions(a, k) ==
    IF k > Len(a) THEN {}
    ELSE {k} \cup FlagPositions(a, IF IsName(a[k]) THEN k + 2 ELSE k + 1)

HelpGiven == \E k \in FlagPositions(argv, 1) : IsHelp(argv[k])

\* C6: when -h or --help is given as a flag, the run prints the usage text
\* and exits with status 0; it reads nothing from stdin, creates no adapter
\* and invokes no battery.
C6_HelpReadsNothing ==
    HelpGiven =>
        /\ pc \in {"args", "help_exit"}
        /\ stdin_off = 0
        /\ refills = 0
        /\ decoded = <<>>
        /\ created = 0
        /\ gen = NoGen
        /\ invoked = <<>>
        /\ exit_status # <<>> => (exit_status = <<0>> /\ usage /\ pc = "help_exit")

C6_Witness ==
    /\ pc = "help_exit"
    /\ Len(argv) = 2
    /\ IsSmall(argv[1])
    /\ IsHelp(argv[2])
    /\ Len(stdin) > 0

\* The selection flags given as flags, by kind.
SelKinds ==
    {IF IsSmall(argv[k]) THEN "SmallCrush"
     ELSE IF IsMedium(argv[k]) THEN "Crush" ELSE "BigCrush" :
        k \in {j \in FlagPositions(argv, 1) :
                  IsSmall(argv[j]) \/ IsMedium(argv[j]) \/ IsBig(argv[j])}}

Terminated == exit_status # <<>>

BatterySelected ==
    /\ Len(invoked) = 1
    /\ SelKinds = {} => invoked[1] = "BigCrush"
    /\ \A b \in {"SmallCrush", "Crush", "BigCrush"} :
           SelKinds = {b} => invoked[1] = b

\* C7 as stated: every run that ends without printing help has invoked
\* exactly one battery, once: the one its selection flag names, the largest
\* when there is none.
C7_Original == (Terminated /\ ~usage) => BatterySelected

\* C7: no run invokes two batteries; a run that does not print help and
\* whose adapter is allocated invokes exactly one battery, once: the one its
\* selection flag names, the largest when there is none; a run whose
\* allocation fails invokes none.
C7_OneBatteryOnce ==
    /\ Len(invoked) <= 1
    /\ pc \in {"battery", "read", "use", "delete", "return", "returned",
               "stdin_exhausted"} => (BatterySelected /\ created = 1 /\ ~usage)
    /\ pc \in {"args", "create", "dispatch", "help_exit", "malloc_failed"} =>
           invoked = <<>>
    /\ (Terminated /\ ~usage /\ pc # "malloc_failed") => BatterySelected

C7_Witness ==
    /\ pc = "returned"
    /\ invoked = <<"SmallCrush">>
    /\ SelKinds = {"SmallCrush"}
    /\ ndraws >= 1

C8_ExitStatusState ==
    /\ (exit_status = <<0>>) <=> (pc \in {"help_exit", "returned"})
    /\ (Terminated /\ exit_status # <<0>>) <=> (pc \in {"stdin_exhausted", "malloc_failed"})
    /\ pc = "returned" => (Len(invoked) = 1 /\ deleted = 1)
    /\ pc = "help_exit" => usage
    /\ pc = "stdin_exhausted" => (~refill_ret /\ stdin_off = Len(stdin))
    /\ pc = "malloc_failed" => created = 0

\* C8: the exit status is 0 exactly when the battery returned or help was
\* printed, and nonzero exactly when the run ended by stream exhaustion or
\* by failing to allocate the adapter; once the process has exited it takes
\* no further step, so no draw is served after exhaustion.
C8_ExitStatus == []C8_ExitStatusState /\ [][~Terminated]_vars

C8_Witness ==
    /\ pc = "stdin_exhausted"
    /\ exit_status = <<1>>
    /\ ndraws = 1
    /\ i = 2

\* C9 as stated: position <= length <= capacity in every reachable state,
\* the initial one included.
C9_Original == buffer_pos <= buffer_len /\ buffer_len <= capacity

\* C9: position and length never exceed the capacity; before the first
\* refill position = capacity and length = 0; from the first refill on,
\* position <= length <= capacity.
C9_CursorWithinFill ==
    /\ buffer_len <= capacity
    /\ buffer_pos <= capacity
    /\ refills = 0 => (buffer_pos = capacity /\ buffer_len = 0)
    /\ refills > 0 => buffer_pos <= buffer_len

C9_Witness ==
    /\ refills >= 2
    /\ buffer_len = capacity
    /\ buffer_pos = buffer_len
    /\ pc = "battery"

\* C10: a refill happens only when no unread byte is left in the buffer, so
\* it overwrites none; it sets length to the number of bytes read (0 at
\* end-of-stream), stores those bytes at the start of the buffer, sets
\* position to 0 and returns true iff at least one byte was read.
C10_LazyRefill ==
    [][refills' # refills =>
          /\ ~(buffer_pos < buffer_len)
          /\ lost' = 0
          /\ buffer_len' = stdin_off' - stdin_off
          /\ buffer_len' <= capacity
          /\ \A k \in 1..buffer_len' : buffer'[k] = stdin[stdin_off + k]
          /\ (stdin_off = Len(stdin)) <=> (buffer_len' = 0)
          /\ buffer_pos' = 0
          /\ refill_ret' = (buffer_len' > 0)
          /\ (pc' = "use") = refill_ret'
          /\ (pc' = "stdin_exhausted") = ~refill_ret']_vars

C10_Witness ==
    /\ refills >= 3
    /\ pc = "use"
    /\ buffer_len < capacity
    /\ buffer_len >= 2
    /\ lost = 0

GenAllocated == gen # NoGen /\ gen # FreedGen

\* The adapter's lifetime in step with main: none before create_stdin_gen
\* returns, one live adapter from then until delete_stdin_gen, which runs
\* right after the one battery call returns, and a freed one afterwards.
AdapterLifetime ==
    /\ created <= 1
    /\ deleted <= created
    /\ pc \in {"args", "create", "help_exit", "malloc_failed"} =>
           (created = 0 /\ gen = NoGen /\ invoked = <<>>)
    /\ pc = "dispatch" =>
           (created = 1 /\ deleted = 0 /\ GenAllocated /\ invoked = <<>>)
    /\ pc \in {"battery", "read", "use", "delete"} =>
           (created = 1 /\ deleted = 0 /\ GenAllocated /\ Len(invoked) = 1)
    /\ pc \in {"return", "returned"} =>
           (created = 1 /\ deleted = 1 /\ gen = FreedGen /\ Len(invoked) = 1)

\* C11 as stated: the adapter's lifetime brackets the one battery call, and
\* every run that creates an adapter has destroyed it when it exits.
C11_Original ==
    /\ AdapterLifetime
    /\ (Terminated /\ created >= 1) => (deleted = created /\ gen = FreedGen)

\* C11: at most one adapter is created per run, right before the dispatch,
\* and it is destroyed right after the battery returns, with exactly one
\* battery call and no other creation or destruction in between; a run whose
\* battery returns destroys the adapter before exiting, and a run that ends
\* by stream exhaustion exits with its adapter still allocated.
C11_AdapterBracketsBattery ==
    /\ AdapterLifetime
    /\ pc = "returned" => (deleted = created /\ gen = FreedGen)
    /\ pc = "stdin_exhausted" =>
           (created = 1 /\ deleted = 0 /\ GenAllocated /\ Len(invoked) = 1)

C11_Witness ==
    /\ pc = "returned"
    /\ created = 1
    /\ deleted = 1
    /\ gen = FreedGen
    /\ ndraws >= 1

StreamReaderState ==
    <<stdin, stdin_off, capacity, buffer, buffer_pos, buffer_len, decoded>>

\* C12: a step of write_state, of create_stdin_gen or of delete_stdin_gen
\* leaves the buffer, its position and length, the bytes taken from stdin
\* and the bytes decoded as they were.
C12_ReaderUntouched ==
    [][(writes' # writes \/ created' # created \/ deleted' # deleted
            \/ gen' # gen) =>
          /\ UNCHANGED StreamReaderState
          /\ UNCHANGED <<refills, lost, ret, calls>>]_vars

C12_Witness ==
    /\ writes >= 1
    /\ created = 1
    /\ pc = "battery"
    /\ ndraws >= 1
    /\ buffer_pos < buffer_len

\* C13 as stated: a run that does not print help ends in normal completion
\* or in fatal stream exhaustion, and in no other state.
C13_Original ==
    (Terminated /\ ~usage) => pc \in {"returned", "stdin_exhausted"}

\* C13: every run that does not print help ends, in one of exactly three
\* terminal states: normal completion, fatal stream exhaustion, or failure
\* to allocate the adapter.  The reader never hangs: every read_uint32 call
\* returns to the battery or exits the process, and a call made when
\* floor(N/4) draws have been returned ends in the exhausted exit.
C13_RunsEnd ==
    /\ []((Terminated /\ ~usage) =>
              pc \in {"returned", "stdin_exhausted", "malloc_failed"})
    /\ (~HelpGiven) ~> (pc \in {"returned", "stdin_exhausted", "malloc_failed"})
    /\ InRead ~> (pc = "battery" \/ pc = "stdin_exhausted")
    /\ (InRead /\ ndraws = Groups(stdin)) ~> (pc = "stdin_exhausted")

C13_Witness ==
    /\ pc = "stdin_exhausted"
    /\ ~usage
    /\ Len(stdin) = 6
    /\ ndraws = 1
    /\ refills >= 3

\* The step in which read_uint32 evaluates buffer[buffer_pos++].
ByteRead == Len(decoded') = Len(decoded) + 1

\* C14: at the moment read_uint32 reads buffer[buffer_pos],
\* 0 <= buffer_pos < buffer_len <= BUFFER_SIZE, so the byte is one that the
\* latest fread stored; this covers the first draw (the cursor starts at
\* BUFFER_SIZE with buffer_len 0, so a refill comes first) and the draws
\* after a short final refill.
C14_ReadWithinFill ==
    [][ByteRead =>
           /\ 0 <= buffer_pos
           /\ buffer_pos < buffer_len
           /\ buffer_len <= capacity
           /\ refills >= 1
           /\ buffer_len <= Len(buffer)
           /\ decoded'[Len(decoded')] = buffer[buffer_pos + 1]]_vars

C14_Witness ==
    /\ pc = "use"
    /\ refills >= 2
    /\ stdin_off = Len(stdin)
    /\ buffer_len < capacity
    /\ buffer_pos = 0
    /\ ndraws >= 1

\* Bytes fread has taken from standard input that no draw has decoded yet.
ReadAhead == stdin_off - Len(decoded)

\* The unread part of the buffer, indices [buffer_pos, buffer_len).
Unread == SubSeq(buffer, buffer_pos + 1, buffer_len)

\* C15 as stated: after the first refill, in every reachable state the bytes
\* taken from standard input are the decoded bytes followed by the unread
\* buffer bytes, and the read-ahead is at most BUFFER_SIZE - 1.
C15_Original ==
    refills >= 1 =>
        /\ SubSeq(stdin, 1, stdin_off) = decoded \o Unread
        /\ stdin_off = Len(decoded) + (buffer_len - buffer_pos)
        /\ ReadAhead <= capacity - 1

\* C15: after the first refill, in every reachable state the bytes taken
\* from standard input form a prefix of the input equal to the decoded bytes
\* followed by the unread buffer bytes [buffer_pos, buffer_len), so bytes
\* taken = bytes decoded + (buffer_len - buffer_pos).  The read-ahead is at
\* most BUFFER_SIZE, and at most BUFFER_SIZE - 1 in every state but the one
\* between a refill's return and the read of the byte that caused it; in
\* particular between draws.
C15_ByteConservation ==
    refills >= 1 =>
        /\ stdin_off <= Len(stdin)
        /\ buffer_pos <= buffer_len
        /\ buffer_len <= Len(buffer)
        /\ SubSeq(stdin, 1, stdin_off) = decoded \o Unread
        /\ stdin_off = Len(decoded) + (buffer_len - buffer_pos)
        /\ ReadAhead = buffer_len - buffer_pos
        /\ ReadAhead <= capacity
        /\ pc # "use" => ReadAhead <= capacity - 1

C15_Witness ==
    /\ pc = "battery"
    /\ ndraws >= 1
    /\ capacity > 1
    /\ ReadAhead = capacity - 1
    /\ Unread # <<>>

\* The -n/--name flags that have an argument after them.
NameFlags == {k \in FlagPositions(argv, 1) : IsName(argv[k]) /\ k < Len(argv)}

LastOf(S) == CHOOSE k \in S : \A j \in S : j <= k

ArgsParsed == pc \notin {"args", "help_exit"}

\* C16: -n/--name takes the argument after it as the display name whatever
\* its text, and main's loop never examines that argument as a flag: help is
\* printed and a battery is selected only by arguments that are not name
\* values.  A -n/--name that is the last argument changes nothing, so with no
\* other name flag the name stays "Rust RNG".
C16_NameConsumesNext ==
    LET nf == NameFlags
        nv == {k + 1 : k \in nf}
    IN  /\ (pc = "args" /\ argi <= Len(argv)) => argi \notin nv
        /\ usage => \E k \in 1..Len(argv) : IsHelp(argv[k]) /\ k \notin nv
        /\ test_type = 0 => \E k \in 1..Len(argv) : IsSmall(argv[k]) /\ k \notin nv
        /\ test_type = 1 => \E k \in 1..Len(argv) : IsMedium(argv[k]) /\ k \notin nv
        /\ ArgsParsed =>
               /\ name = IF nf = {} THEN "Rust RNG" ELSE argv[LastOf(nf) + 1]
               /\ (gen # NoGen /\ gen # FreedGen) => gen.name = name
        /\ (ArgsParsed /\ Len(argv) = 1 /\ IsName(argv[1])) => name = "Rust RNG"
        /\ (ArgsParsed /\ Len(argv) = 2 /\ ~IsName(argv[1]) /\ IsName(argv[2])) =>
               name = "Rust RNG"

C16_Witness ==
    /\ pc = "battery"
    /\ Len(argv) = 2
    /\ IsName(argv[1])
    /\ IsHelp(argv[2])
    /\ gen # NoGen
    /\ gen.name = argv[2]
    /\ ~usage

IsSelection(a) == IsSmall(a) \/ IsMedium(a) \/ IsBig(a)

\* The selection flags that main's loop reads as flags.
SelFlags == {k \in FlagPositions(argv, 1) : IsSelection(argv[k])}

KindOf(a) ==
    IF IsSmall(a) THEN "SmallCrush" ELSE IF IsMedium(a) THEN "Crush" ELSE "BigCrush"

\* The battery the command line asks for: that of its last selection flag,
\* BigCrush when it has none.
ExpectedBattery ==
    IF SelFlags = {} THEN "BigCrush" ELSE KindOf(argv[LastOf(SelFlags)])

\* C17: the battery that runs is the one named by the last selection flag in
\* flag position (BigCrush when there is none), whatever selection flags come
\* before it and whatever unrecognized arguments the command line holds; the
\* argument loop never ends the run with an error, so a nonzero exit happens
\* only after every argument has been passed over.
C17_LastSelectionWins ==
    /\ ArgsParsed =>
           LET expected == ExpectedBattery
           IN  /\ Battery(test_type) = expected
               /\ invoked # <<>> => invoked = <<expected>>
               /\ argi = Len(argv) + 1
    /\ ~ArgsParsed => invoked = <<>>
    /\ pc = "args" => exit_status = <<>>
    /\ pc = "help_exit" => exit_status = <<0>>
    /\ (Terminated /\ exit_status # <<0>>) =>
           /\ pc \in {"stdin_exhausted", "malloc_failed"}
           /\ argi = Len(argv) + 1

C17_Witness ==
    /\ pc = "returned"
    /\ Len(argv) = 2
    /\ IsSmall(argv[1])
    /\ IsMedium(argv[2])
    /\ invoked = <<"Crush">>

\* A run whose command line holds an unrecognized argument completes.
C17_WitnessUnrecognized ==
    /\ pc = "returned"
    /\ Len(argv) = 2
    /\ ~IsSelection(argv[2]) /\ ~IsName(argv[2]) /\ ~IsHelp(argv[2])
    /\ IsSmall(argv[1])
    /\ invoked = <<"SmallCrush">>

====
